---- MODULE Spec2Model ----
(***************************************************************************)
(* A model of the Verdaccio auth plugin GitLabOidcAuth (src/src/plugin.ts). *)
(*                                                                         *)
(* Strings are sequences of atoms, so that concatenation (template         *)
(* literals), prefix tests and the trailing-slash regular expression are   *)
(* computed, not assumed: "gitlab-ci" is <<"gitlab", "-ci">> and the path   *)
(* "a/b" is <<"a", "/", "b">>.  JavaScript values that may be of several    *)
(* types are records [type, val], so that === and truthiness differ.       *)
(* Time is in whole seconds.                                               *)
(***************************************************************************)
EXTENDS Integers, Sequences, FiniteSets

(***************************************************************************)
(* Bounds of the model.                                                    *)
(***************************************************************************)
\* the clock stops at MaxNow
MaxNow == 2

(***************************************************************************)
(* JavaScript values.                                                      *)
(***************************************************************************)
JsUndefined == [type |-> "undefined", val |-> <<>>]
JsString(s) == [type |-> "string", val |-> s]
JsTrue == [type |-> "boolean", val |-> <<"true">>]

\* ToBoolean: undefined and "" are falsy, a non-empty string and true are truthy
Truthy(v) ==
    CASE v.type = "undefined" -> FALSE
      [] v.type = "string" -> v.val # <<>>
      [] v.type = "boolean" -> v.val = <<"true">>

\* v === s for a string literal s
StrictEq(v, s) == v.type = "string" /\ v.val = s

\* v ?? d
Nullish(v, d) == IF v.type = "undefined" THEN d ELSE v

\* `${v}` inside a template literal
TemplateString(v) == IF v.type = "undefined" THEN <<"undefined">> ELSE v.val

(***************************************************************************)
(* String helpers.                                                         *)
(***************************************************************************)
IsPrefix(p, s) == Len(p) <= Len(s) /\ SubSeq(s, 1, Len(p)) = p

Contains(s, a) == \E i \in 1..Len(s) : s[i] = a

\* s.replace(/\/+$/, "")
MutStripOneSlash(s) ==
    IF Len(s) > 0 /\ s[Len(s)] = "/" THEN SubSeq(s, 1, Len(s) - 1) ELSE s
RECURSIVE StripTrailingSlashes(_)
StripTrailingSlashes(s) ==
    IF Len(s) > 0 /\ s[Len(s)] = "/"
    THEN StripTrailingSlashes(SubSeq(s, 1, Len(s) - 1))
    ELSE s

(***************************************************************************)
(* src/src/types.ts                                                        *)
(***************************************************************************)
DEFAULT_CI_USERNAME == <<"gitlab-oidc">>
DEFAULT_JWKS_CACHE_TTL == 86400

(***************************************************************************)
(* Group names of deriveGroups.                                            *)
(***************************************************************************)
GITLAB_CI == <<"gitlab", "-ci">>
GITLAB_CI_PROTECTED == <<"gitlab", "-ci", "-protected">>
GITLAB_PREFIX == <<"gitlab", ":">>

\* GitLabOidcAuth.deriveGroups, the ref_protected test
MutRefProtectedTruthy(claims) == Truthy(claims.ref_protected)
IsRefProtected(claims) == StrictEq(claims.ref_protected, <<"true">>)

\* "a/b/c" |-> <<"a", "a/b", "a/b/c">>
RECURSIVE PrefixChain(_)
PrefixChain(path) ==
    IF path = <<>> THEN <<>>
    ELSE LET cuts == { i \in 1..Len(path) : path[i] = "/" }
         IN  IF cuts = {} THEN <<path>>
             ELSE LET last == CHOOSE i \in cuts : \A j \in cuts : j <= i
                  IN  PrefixChain(SubSeq(path, 1, last - 1)) \o <<path>>

\* GitLabOidcAuth.deriveGroups, the project-group entries pushed for one claim
MutProjectGroupEntriesChain(v) ==
    IF Truthy(v)
    THEN LET chain == PrefixChain(TemplateString(v))
         IN  [i \in 1..Len(chain) |-> GITLAB_PREFIX \o chain[i]]
    ELSE <<>>
MutProjectGroupEntriesNoGuard(v) == << GITLAB_PREFIX \o TemplateString(v) >>
ProjectGroupEntries(v) ==
    IF Truthy(v) THEN << GITLAB_PREFIX \o TemplateString(v) >> ELSE <<>>

\* GitLabOidcAuth.deriveGroups
MutDeriveGroupsAlwaysProject(claims, projectGroups) ==
    <<GITLAB_CI>>
      \o (IF IsRefProtected(claims) THEN <<GITLAB_CI_PROTECTED>> ELSE <<>>)
      \o ProjectGroupEntries(claims.namespace_path)
      \o ProjectGroupEntries(claims.project_path)
MutDeriveGroupsCopyPaste(claims, projectGroups) ==
    <<GITLAB_CI>>
      \o (IF IsRefProtected(claims) THEN <<GITLAB_CI_PROTECTED>> ELSE <<>>)
      \o (IF projectGroups
          THEN ProjectGroupEntries(claims.namespace_path)
                 \o (IF Truthy(claims.project_path)
                     THEN ProjectGroupEntries(claims.namespace_path)
                     ELSE <<>>)
          ELSE <<>>)
MutDeriveGroupsProjectFirst(claims, projectGroups) ==
    <<GITLAB_CI>>
      \o (IF IsRefProtected(claims) THEN <<GITLAB_CI_PROTECTED>> ELSE <<>>)
      \o (IF projectGroups
          THEN ProjectGroupEntries(claims.project_path)
                 \o ProjectGroupEntries(claims.namespace_path)
          ELSE <<>>)
deriveGroups(claims, projectGroups) ==
    LET groups0 == <<GITLAB_CI>>
        groups1 == IF IsRefProtected(claims)
                   THEN Append(groups0, GITLAB_CI_PROTECTED)
                   ELSE groups0
        groups2 == IF projectGroups
                   THEN groups1 \o ProjectGroupEntries(claims.namespace_path)
                                \o ProjectGroupEntries(claims.project_path)
                   ELSE groups1
    IN  groups2

(***************************************************************************)
(* Plugin configuration (PluginConfig) and the constructor.                *)
(***************************************************************************)
GITLAB_ORIGIN == "https://gitlab.example.com"
AUDIENCE == <<"https://npm.example.com">>

\* jwks_cache_ttl?: number, as [defined, n]
NoTtl == [defined |-> FALSE, n |-> 0]
Ttl(n) == [defined |-> TRUE, n |-> n]

\* project_groups?: boolean, as "undefined" | "true" | "false"
RawConfig(url, aud, user, ttl, pg) ==
    [gitlab_url |-> url, audience |-> aud, ci_username |-> user,
     jwks_cache_ttl |-> ttl, project_groups |-> pg]

\* GitLabOidcAuth.constructor: the fields of the instance, or what it throws
NotConstructed(what) ==
    [threw |-> what, gitlabUrl |-> <<>>, audience |-> <<>>,
     ciUsername |-> <<>>, jwksCacheTtl |-> 0, projectGroups |-> FALSE]

MutConstructorNoAudienceCheck(config) ==
    IF ~Truthy(config.gitlab_url) THEN NotConstructed("gitlab_url")
    ELSE [threw |-> "none",
          gitlabUrl |-> StripTrailingSlashes(config.gitlab_url.val),
          audience |-> config.audience.val,
          ciUsername |-> Nullish(config.ci_username,
                                 JsString(DEFAULT_CI_USERNAME)).val,
          jwksCacheTtl |-> IF config.jwks_cache_ttl.defined
                           THEN config.jwks_cache_ttl.n
                           ELSE DEFAULT_JWKS_CACHE_TTL,
          projectGroups |-> IF config.project_groups = "undefined"
                            THEN FALSE
                            ELSE config.project_groups = "true"]
constructor(config) ==
    IF ~Truthy(config.gitlab_url) THEN NotConstructed("gitlab_url")
    ELSE IF ~Truthy(config.audience) THEN NotConstructed("audience")
    ELSE [threw |-> "none",
          gitlabUrl |-> StripTrailingSlashes(config.gitlab_url.val),
          audience |-> config.audience.val,
          ciUsername |-> Nullish(config.ci_username,
                                 JsString(DEFAULT_CI_USERNAME)).val,
          jwksCacheTtl |-> IF config.jwks_cache_ttl.defined
                           THEN config.jwks_cache_ttl.n
                           ELSE DEFAULT_JWKS_CACHE_TTL,
          projectGroups |-> IF config.project_groups = "undefined"
                            THEN FALSE
                            ELSE config.project_groups = "true"]

(***************************************************************************)
(* Tokens.  A compact JWS is [alg, kid] . payload . signature; sig names    *)
(* the key whose private half produced the signature ("forged": none of    *)
(* the issuer's).  exp, iat and nbf are NumericDates or NoClaim.           *)
(***************************************************************************)
NoClaim == -1

KeyIds == {"k1", "k2"}

Jwt(alg, kid, sig, iss, aud, exp, iat, nbf, claims) ==
    [shape |-> "jws", alg |-> alg, kid |-> kid, sig |-> sig, iss |-> iss,
     aud |-> aud, exp |-> exp, iat |-> iat, nbf |-> nbf, claims |-> claims]

\* GitLabJwtClaims, the claims the plugin may read
Claims(sub, ref, ref_type, ref_protected, project_path, namespace_path, pipeline_source) ==
    [sub |-> sub, ref |-> ref, ref_type |-> ref_type,
     ref_protected |-> ref_protected, project_path |-> project_path,
     namespace_path |-> namespace_path, pipeline_source |-> pipeline_source]

NoClaims ==
    Claims(JsUndefined, JsUndefined, JsUndefined, JsUndefined, JsUndefined,
           JsUndefined, JsUndefined)

\* a password that is no compact JWS: "not-a-jwt" or ""
NotJwt(shape) ==
    [shape |-> shape, alg |-> "none", kid |-> "none", sig |-> "none",
     iss |-> <<>>, aud |-> <<>>, exp |-> NoClaim, iat |-> NoClaim,
     nbf |-> NoClaim, claims |-> NoClaims]

(***************************************************************************)
(* jwtVerify(token, this.jwks, {algorithms, issuer, audience}) of jose, as  *)
(* the plugin calls it: no maxTokenAge, no requiredClaims, no              *)
(* clockTolerance.  The stages up to key resolution, then the rest.        *)
(***************************************************************************)
\* algorithms: ["RS256"]
ALGORITHMS == {"RS256"}

\* the compact form and the protected header, before any key is asked for
MutJwtVerifyAnyAlg(token) ==
    IF token.shape # "jws" THEN "JWSInvalid" ELSE "none"
JwtVerifyHeader(token) ==
    IF token.shape # "jws" THEN "JWSInvalid"
    ELSE IF token.alg \notin ALGORITHMS THEN "JOSEAlgNotAllowed"
    ELSE "none"

\* the "exp" check of the claims set: rejected when exp <= now
MutExpiredStrictlyAfter(token, t) == token.exp # NoClaim /\ token.exp < t
Expired(token, t) == token.exp # NoClaim /\ token.exp <= t

\* the "nbf" check of the claims set: rejected when nbf > now
NotYetValid(token, t) == token.nbf # NoClaim /\ token.nbf > t

\* signature, then the claims set: iss, aud, nbf, exp ("iat" is only required
\* to be a number; it is compared with the clock only under maxTokenAge)
MutJwtVerifyNoSignature(token, keyId, issuer, audience, t) ==
    IF token.iss # issuer THEN "JWTClaimValidationFailed:iss"
    ELSE IF token.aud # audience THEN "JWTClaimValidationFailed:aud"
    ELSE IF NotYetValid(token, t) THEN "JWTClaimValidationFailed:nbf"
    ELSE IF Expired(token, t) THEN "JWTExpired"
    ELSE "none"
JwtVerifyWithKey(token, keyId, issuer, audience, t) ==
    IF token.sig # keyId THEN "JWSSignatureVerificationFailed"
    ELSE IF token.iss # issuer THEN "JWTClaimValidationFailed:iss"
    ELSE IF token.aud # audience THEN "JWTClaimValidationFailed:aud"
    ELSE IF NotYetValid(token, t) THEN "JWTClaimValidationFailed:nbf"
    ELSE IF Expired(token, t) THEN "JWTExpired"
    ELSE "none"

(***************************************************************************)
(* this.jwks: the remote key set createRemoteJWKSet returns.               *)
(***************************************************************************)
\* jose's cooldownDuration default, in ms
COOLDOWN_MS == 30000

KEYS_PATH == "/oauth/discovery/keys"

NoJwks ==
    [created |-> FALSE, url |-> <<>>, cacheMaxAge |-> 0, cached |-> FALSE,
     keys |-> {}, timestamp |-> 0, pending |-> FALSE, waiters |-> <<>>]

\* new URL(s) throws unless s is an absolute URL
IsUrl(s) == Len(s) > 0 /\ s[1] = GITLAB_ORIGIN

\* createRemoteJWKSet(new URL(`${gitlabUrl}/oauth/discovery/keys`),
\*                    { cacheMaxAge: jwksCacheTtl * 1000 })
createRemoteJWKSet(gitlabUrl, jwksCacheTtl) ==
    [NoJwks EXCEPT !.created = TRUE,
                   !.url = gitlabUrl \o <<KEYS_PATH>>,
                   !.cacheMaxAge = jwksCacheTtl * 1000]

MutFreshIgnoresMaxAge(j, t) == j.cached
Fresh(j, t) == j.cached /\ t * 1000 < j.timestamp + j.cacheMaxAge

MutNeverCoolingDown(j, t) == FALSE
CoolingDown(j, t) == j.cached /\ t * 1000 < j.timestamp + COOLDOWN_MS

\* the local key set: the key whose kid is the header's, or "nomatch"
LocalLookup(j, token) == IF token.kid \in j.keys THEN token.kid ELSE "nomatch"

(***************************************************************************)
(* State.                                                                  *)
(***************************************************************************)
VARIABLES
    plugin,     \* the GitLabOidcAuth instance: the constructor's fields
    jwks,       \* this.jwks
    published,  \* the kids of the keys the issuer's key endpoint serves
    now,        \* the clock, in seconds
    calls,      \* the authenticate calls, by slot
    inFlight    \* number of fetches of the key endpoint in flight

vars == <<plugin, jwks, published, now, calls, inFlight>>

CallIds == DOMAIN calls

\* the arguments a callback was invoked with: cb(err, false) or cb(err, groups)
CbFalse(err) == [err |-> err, isFalse |-> TRUE, groups |-> <<>>]
CbGroups(err, groups) == [err |-> err, isFalse |-> FALSE, groups |-> groups]

\* a call: the method called (op), the arguments, where it stands, the
\* callback invocations so far
\* (cbs), and for the record whether verifyAndAuthenticate ran (verified),
\* the error it rejected with (err), whether it created this.jwks and how
\* many fetches it started
IdleCall ==
    [op |-> "none", pc |-> "idle", user |-> <<>>, token |-> NotJwt(""),
     throws |-> FALSE,
     cbs |-> <<>>, verified |-> FALSE, err |-> "none", phase |-> "none",
     createdJwks |-> FALSE, fetchesStarted |-> 0]

\* the part of the state a call in progress changes
St(j, cs, f) == [jwks |-> j, calls |-> cs, inFlight |-> f]

(***************************************************************************)
(* GitLabOidcAuth.authenticate: the promise's two handlers.                *)
(***************************************************************************)
\* .catch((err) => { logger.warn(...); cb(null, false) })
MutOnRejectedPassesError(err) == <<CbFalse(err)>>
OnRejected(err) == <<CbFalse("null")>>

\* .then((groups) => cb(null, groups)); a callback that throws there rejects
\* the chained promise, which the .catch handler then receives
OnFulfilled(groups, throws) ==
    <<CbGroups("null", groups)>>
      \o (IF throws THEN OnRejected("callback threw") ELSE <<>>)

Reject(S, c, err) ==
    [S EXCEPT !.calls[c].pc = "done",
              !.calls[c].err = err,
              !.calls[c].cbs = @ \o OnRejected(err)]

Fulfil(S, c, groups) ==
    [S EXCEPT !.calls[c].pc = "done",
              !.calls[c].cbs = @ \o OnFulfilled(groups, S.calls[c].throws)]

(***************************************************************************)
(* The remote key set's getKey, and the rest of verifyAndAuthenticate.     *)
(***************************************************************************)
\* reload(): await the pending fetch, starting one when none is pending
MutReloadAlwaysFetches(S, c, phase) ==
    [S EXCEPT !.jwks.pending = TRUE,
              !.jwks.waiters = Append(@, c),
              !.inFlight = @ + 1,
              !.calls[c].pc = "await_reload",
              !.calls[c].phase = phase,
              !.calls[c].fetchesStarted = @ + 1]
Reload(S, c, phase) ==
    [S EXCEPT !.jwks.pending = TRUE,
              !.jwks.waiters = Append(@, c),
              !.inFlight = IF S.jwks.pending THEN @ ELSE @ + 1,
              !.calls[c].pc = "await_reload",
              !.calls[c].phase = phase,
              !.calls[c].fetchesStarted = IF S.jwks.pending THEN @ ELSE @ + 1]

\* the key is known: the rest of jwtVerify, then deriveGroups
Complete(S, c, keyId) ==
    LET token == S.calls[c].token
        err == JwtVerifyWithKey(token, keyId, plugin.gitlabUrl,
                                plugin.audience, now)
    IN  IF err = "none"
        THEN Fulfil(S, c, deriveGroups(token.claims, plugin.projectGroups))
        ELSE Reject(S, c, err)

\* try { local lookup } catch (JWKSNoMatchingKey) { reload unless cooling down }
TryLocal(S, c) ==
    LET k == LocalLookup(S.jwks, S.calls[c].token)
    IN  IF k # "nomatch" THEN Complete(S, c, k)
        ELSE IF ~CoolingDown(S.jwks, now) THEN Reload(S, c, "miss")
        ELSE Reject(S, c, "JWKSNoMatchingKey")

\* the lookup after the reload of the catch block: a miss is thrown
FinalLocal(S, c) ==
    LET k == LocalLookup(S.jwks, S.calls[c].token)
    IN  IF k # "nomatch" THEN Complete(S, c, k)
        ELSE Reject(S, c, "JWKSNoMatchingKey")

\* getKey: reload first when nothing is cached or the cache is not fresh
GetKey(S, c) ==
    IF ~S.jwks.cached \/ ~Fresh(S.jwks, now)
    THEN Reload(S, c, "initial")
    ELSE TryLocal(S, c)

\* verifyAndAuthenticate(token), up to its first wait for the key endpoint
verifyAndAuthenticate(S, c) ==
    LET token == S.calls[c].token
        S0 == [S EXCEPT !.calls[c].verified = TRUE]
    IN  IF ~S.jwks.created /\ ~IsUrl(plugin.gitlabUrl \o <<KEYS_PATH>>)
        THEN Reject(S0, c, "TypeError: Invalid URL")
        ELSE LET S1 == IF S0.jwks.created THEN S0
                       ELSE [S0 EXCEPT
                               !.jwks = createRemoteJWKSet(plugin.gitlabUrl,
                                                           plugin.jwksCacheTtl),
                               !.calls[c].createdJwks = TRUE]
                 err == JwtVerifyHeader(token)
             IN  IF err # "none" THEN Reject(S1, c, err) ELSE GetKey(S1, c)

\* a call waiting for the fetch resumes with its outcome
Resume(S, c, outcome) ==
    IF outcome # "ok" THEN Reject(S, c, outcome)
    ELSE IF S.calls[c].phase = "initial" THEN TryLocal(S, c)
    ELSE FinalLocal(S, c)

RECURSIVE ResumeAll(_, _, _)
ResumeAll(S, waiters, outcome) ==
    IF waiters = <<>> THEN S
    ELSE ResumeAll(Resume(S, Head(waiters), outcome), Tail(waiters), outcome)

(***************************************************************************)
(* Actions.                                                                *)
(***************************************************************************)
\* user !== this.ciUsername
MutIsPassThroughDefaultName(user) == user # DEFAULT_CI_USERNAME
IsPassThrough(user) == user # plugin.ciUsername

\* GitLabOidcAuth.authenticate(user, password, cb), up to its first wait for
\* the key endpoint; throws: whether cb throws when handed a group list
authenticate(c, user, password, throws) ==
    /\ plugin.threw = "none"
    /\ calls[c].pc = "idle"
    /\ LET call == [IdleCall EXCEPT !.op = "authenticate", !.pc = "called",
                                    !.user = user, !.token = password,
                                    !.throws = throws]
           S == St(jwks, [calls EXCEPT ![c] = call], inFlight)
           S1 == IF IsPassThrough(user)
                 THEN [S EXCEPT !.calls[c].pc = "done",
                                !.calls[c].cbs = <<CbFalse("null")>>]
                 ELSE verifyAndAuthenticate(S, c)
       IN  /\ jwks' = S1.jwks
           /\ calls' = S1.calls
           /\ inFlight' = S1.inFlight
    /\ UNCHANGED <<plugin, published, now>>

\* GitLabOidcAuth.adduser(_user, _password, cb): cb(null, false)
MutDelegateVerifies(S, c) == verifyAndAuthenticate(S, c)
Delegate(S, c) ==
    [S EXCEPT !.calls[c].pc = "done",
              !.calls[c].cbs = @ \o <<CbFalse("null")>>]

adduser(c, user, password) ==
    /\ plugin.threw = "none"
    /\ calls[c].pc = "idle"
    /\ LET call == [IdleCall EXCEPT !.op = "adduser", !.pc = "called",
                                    !.user = user, !.token = password]
           S1 == Delegate(St(jwks, [calls EXCEPT ![c] = call], inFlight), c)
       IN  /\ jwks' = S1.jwks
           /\ calls' = S1.calls
           /\ inFlight' = S1.inFlight
    /\ UNCHANGED <<plugin, published, now>>

\* what a fetch of the key endpoint may fail with: the timeout, a status
\* other than 200, a body that is no key set
FetchFailures == {"JWKSTimeout", "JOSEError: Expected 200 OK", "JWKSInvalid"}

\* the endpoint answers 200 with its keys at {issuer}/oauth/discovery/keys
Serves(url) == url = <<GITLAB_ORIGIN, KEYS_PATH>>

\* the pending fetch settles; every call awaiting it resumes, in order
MutFetchSettlesNoTimeout(outcome) ==
    /\ jwks.pending
    /\ outcome # "JWKSTimeout"
    /\ outcome = "ok" => Serves(jwks.url)
    /\ LET j == IF outcome = "ok"
                THEN [jwks EXCEPT !.cached = TRUE, !.keys = published,
                                  !.timestamp = now * 1000,
                                  !.pending = FALSE, !.waiters = <<>>]
                ELSE [jwks EXCEPT !.pending = FALSE, !.waiters = <<>>]
           S1 == ResumeAll(St(j, calls, inFlight - 1), jwks.waiters, outcome)
       IN  /\ jwks' = S1.jwks
           /\ calls' = S1.calls
           /\ inFlight' = S1.inFlight
    /\ UNCHANGED <<plugin, published, now>>
MutFetchSettlesDropsKeysOnFailure(outcome) ==
    /\ jwks.pending
    /\ outcome = "ok" => Serves(jwks.url)
    /\ LET j == IF outcome = "ok"
                THEN [jwks EXCEPT !.cached = TRUE, !.keys = published,
                                  !.timestamp = now * 1000,
                                  !.pending = FALSE, !.waiters = <<>>]
                ELSE [jwks EXCEPT !.keys = {},
                                  !.pending = FALSE, !.waiters = <<>>]
           S1 == ResumeAll(St(j, calls, inFlight - 1), jwks.waiters, outcome)
       IN  /\ jwks' = S1.jwks
           /\ calls' = S1.calls
           /\ inFlight' = S1.inFlight
    /\ UNCHANGED <<plugin, published, now>>
FetchSettles(outcome) ==
    /\ jwks.pending
    /\ outcome = "ok" => Serves(jwks.url)
    /\ LET j == IF outcome = "ok"
                THEN [jwks EXCEPT !.cached = TRUE, !.keys = published,
                                  !.timestamp = now * 1000,
                                  !.pending = FALSE, !.waiters = <<>>]
                ELSE [jwks EXCEPT !.pending = FALSE, !.waiters = <<>>]
           S1 == ResumeAll(St(j, calls, inFlight - 1), jwks.waiters, outcome)
       IN  /\ jwks' = S1.jwks
           /\ calls' = S1.calls
           /\ inFlight' = S1.inFlight
    /\ UNCHANGED <<plugin, published, now>>

\* the host has taken the callback's result: the slot is free again
Returns(c) ==
    /\ calls[c].pc = "done"
    /\ calls' = [calls EXCEPT ![c] = IdleCall]
    /\ UNCHANGED <<plugin, jwks, published, now, inFlight>>

\* time passes
Tick ==
    /\ now < MaxNow
    /\ now' = now + 1
    /\ UNCHANGED <<plugin, jwks, published, calls, inFlight>>

\* the issuer rotates its signing keys
KeySets == {{"k1"}, {"k1", "k2"}, {"k2"}}

Rotate(keys) ==
    /\ keys # published
    /\ published' = keys
    /\ UNCHANGED <<plugin, jwks, now, calls, inFlight>>

(***************************************************************************)
(* Inputs.                                                                 *)
(***************************************************************************)
Users == {DEFAULT_CI_USERNAME, <<"my-ci-bot">>, <<"regular-user">>, <<>>}

ISSUER == <<GITLAB_ORIGIN>>

\* test/fixtures.ts
PROTECTED_BRANCH_PUSH ==
    Claims(JsString(<<"project_path:my-group/my-project:ref_type:branch:ref:main">>),
           JsString(<<"main">>), JsString(<<"branch">>), JsString(<<"true">>),
           JsString(<<"my-group", "/", "my-project">>), JsString(<<"my-group">>),
           JsString(<<"push">>))
FEATURE_BRANCH_PUSH ==
    Claims(JsString(<<"project_path:my-group/my-project:ref_type:branch:ref:feature/foo">>),
           JsString(<<"feature/foo">>), JsString(<<"branch">>), JsString(<<"false">>),
           JsString(<<"my-group", "/", "my-project">>), JsString(<<"my-group">>),
           JsString(<<"push">>))
NESTED_SUBGROUP ==
    Claims(JsString(<<"project_path:my-org/team-a/libs/core:ref_type:branch:ref:main">>),
           JsString(<<"main">>), JsString(<<"branch">>), JsString(<<"true">>),
           JsString(<<"my-org", "/", "team-a", "/", "libs", "/", "core">>),
           JsString(<<"my-org", "/", "team-a", "/", "libs">>),
           JsString(<<"push">>))

FixtureClaims == {PROTECTED_BRANCH_PUSH, FEATURE_BRANCH_PUSH, NESTED_SUBGROUP}

\* a token valid in every respect but what the arguments say, signed with
\* the key its header names unless forged
Signed(alg, kid, own, iss, aud, exp, iat, nbf, claims) ==
    Jwt(alg, kid, IF own THEN kid ELSE "forged", iss, aud, exp, iat, nbf, claims)

\* the passwords of Spec: the two that are no JWS, and every combination of
\* algorithm, key, signature, issuer, audience and expiry
Tokens ==
    { NotJwt(shape) : shape \in {"not-a-jwt", ""} }
    \cup
    { Signed(alg, kid, own, iss, aud, exp, 0, NoClaim, PROTECTED_BRANCH_PUSH) :
        alg \in {"RS256", "HS256"}, kid \in KeyIds, own \in BOOLEAN,
        iss \in {ISSUER, <<"https://evil.example.com">>},
        aud \in {AUDIENCE, <<"https://wrong.example.com">>},
        exp \in {1, 2} }

\* the configurations of Spec
RawConfigs ==
    { RawConfig(JsString(ISSUER), JsString(AUDIENCE), user, ttl, "undefined") :
        user \in {JsUndefined, JsString(<<"my-ci-bot">>)},
        ttl \in {NoTtl, Ttl(1)} }

(***************************************************************************)
(* Specifications.                                                         *)
(***************************************************************************)
InitOver(configs, slots) ==
    /\ plugin \in { constructor(config) : config \in configs }
    /\ jwks = NoJwks
    /\ published = {"k1"}
    /\ now = 0
    /\ calls = [c \in slots |-> IdleCall]
    /\ inFlight = 0

Authenticates(users, passwords) ==
    \E c \in CallIds, user \in users, password \in passwords :
        authenticate(c, user, password, FALSE)

Settles == \E outcome \in {"ok"} \cup FetchFailures : FetchSettles(outcome)

Rotates == \E keys \in KeySets : Rotate(keys)

Return == \E c \in CallIds : Returns(c)

\* Spec: one call at a time, over every user and every token of Tokens
Init == InitOver(RawConfigs, {1})

Next ==
    \/ Authenticates(Users, Tokens)
    \/ Settles
    \/ Return
    \/ Tick
    \/ Rotates

Spec == Init /\ [][Next]_vars

(***************************************************************************)
(* SpecTime: tokens valid but for their times, every combination of exp,   *)
(* iat and nbf over the clock's range and absence.                         *)
(***************************************************************************)
TimeValues == {NoClaim} \cup 0..MaxNow

TimeTokens ==
    { Signed("RS256", "k1", TRUE, ISSUER, AUDIENCE, exp, iat, nbf,
             FEATURE_BRANCH_PUSH) :
        exp \in TimeValues, iat \in TimeValues, nbf \in TimeValues }

InitTime == InitOver(RawConfigs, {1})

NextTime ==
    \/ Authenticates({DEFAULT_CI_USERNAME}, TimeTokens)
    \/ Settles
    \/ Return
    \/ Tick

SpecTime == InitTime /\ [][NextTime]_vars

(***************************************************************************)
(* SpecClaims: well-signed tokens over every combination of ref_protected, *)
(* namespace_path, project_path and one absent claim, under project_groups *)
(* undefined, true and false.                                              *)
(***************************************************************************)
\* paths have up to MaxSegments segments
MaxSegments == 2

SegmentNames == <<"a", "b", "c", "d", "e">>

\* "a", "a/b", "a/b/c", ...
RECURSIVE PathOf(_)
PathOf(k) ==
    IF k = 1 THEN <<SegmentNames[1]>>
    ELSE PathOf(k - 1) \o <<"/", SegmentNames[k]>>

PathValues ==
    {JsUndefined, JsString(<<>>), JsString(<<"x">>)}
    \cup { JsString(PathOf(k)) : k \in 1..MaxSegments }

RefProtectedValues ==
    {JsString(<<"true">>), JsString(<<"false">>), JsString(<<"True">>),
     JsTrue, JsUndefined}

Present(name, absent) ==
    IF name = absent THEN JsUndefined ELSE JsString(<<name>>)

ClaimSets ==
    { Claims(Present("sub", absent), Present("ref", absent),
             Present("ref_type", absent), rp, proj, ns,
             Present("pipeline_source", absent)) :
        absent \in {"none", "sub", "ref", "ref_type", "pipeline_source"},
        rp \in RefProtectedValues, proj \in PathValues, ns \in PathValues }

ClaimTokens ==
    { Signed("RS256", "k1", TRUE, ISSUER, AUDIENCE, 2, 0, NoClaim, claims) :
        claims \in ClaimSets \cup FixtureClaims }
    \cup
    { Signed("RS256", "k1", FALSE, ISSUER, AUDIENCE, 2, 0, NoClaim, claims) :
        claims \in FixtureClaims }

ClaimConfigs ==
    { RawConfig(JsString(ISSUER), JsString(AUDIENCE), JsUndefined, NoTtl, pg) :
        pg \in {"undefined", "true", "false"} }

InitClaims == InitOver(ClaimConfigs, {1})

NextClaims ==
    \/ Authenticates({DEFAULT_CI_USERNAME}, ClaimTokens)
    \/ Settles
    \/ Return
    \/ Tick

SpecClaims == InitClaims /\ [][NextClaims]_vars

(***************************************************************************)
(* SpecConc: several calls at once, against a key set that is cold, stale  *)
(* (jwks_cache_ttl = 1) or lacks the token's key, with the issuer rotating *)
(* its keys and the clock passing the cooldown of the key set.             *)
(***************************************************************************)
MaxCallers == 2

\* how many times the clock may jump by the cooldown
MaxWaits == 1

COOLDOWN_S == COOLDOWN_MS \div 1000

\* time passes, a cooldown's worth at once
Wait ==
    /\ now + COOLDOWN_S <= MaxWaits * COOLDOWN_S
    /\ now' = now + COOLDOWN_S
    /\ UNCHANGED <<plugin, jwks, published, calls, inFlight>>

\* tokens valid in every respect, without exp, one per key id
ConcTokens ==
    { Signed("RS256", kid, TRUE, ISSUER, AUDIENCE, NoClaim, 0, NoClaim,
             FEATURE_BRANCH_PUSH) : kid \in KeyIds }

ConcConfigs ==
    { RawConfig(JsString(ISSUER), JsString(AUDIENCE), JsUndefined, ttl,
                "undefined") : ttl \in {NoTtl, Ttl(1)} }

InitConc == InitOver(ConcConfigs, 1..MaxCallers)

NextConc ==
    \/ Authenticates({DEFAULT_CI_USERNAME}, ConcTokens)
    \/ Settles
    \/ Return
    \/ Wait
    \/ Rotates

SpecConc == InitConc /\ [][NextConc]_vars

(***************************************************************************)
(* SpecConfig: every combination of gitlab_url (absent, empty, only        *)
(* slashes, the issuer with 0..MaxSlashes trailing slashes) and audience   *)
(* (absent, empty, set); authenticate and adduser called on what was       *)
(* constructed.                                                            *)
(***************************************************************************)
MaxSlashes == 3

\* s followed by k slashes
RECURSIVE Slashed(_, _)
Slashed(s, k) == IF k = 0 THEN s ELSE Slashed(s, k - 1) \o <<"/">>

GitlabUrlValues ==
    {JsUndefined, JsString(<<>>), JsString(<<"/", "/">>)}
    \cup { JsString(Slashed(ISSUER, k)) : k \in 0..MaxSlashes }

AudienceValues == {JsUndefined, JsString(<<>>), JsString(AUDIENCE)}

AllConfigs ==
    { RawConfig(url, aud, JsUndefined, NoTtl, "undefined") :
        url \in GitlabUrlValues, aud \in AudienceValues }

\* tokens valid but for the issuer they name
ConfigTokens ==
    { Signed("RS256", "k1", TRUE, iss, AUDIENCE, NoClaim, 0, NoClaim,
             FEATURE_BRANCH_PUSH) :
        iss \in {ISSUER, Slashed(ISSUER, 1), Slashed(ISSUER, MaxSlashes),
                  <<"https://evil.example.com">>} }

ConfigUsers == {DEFAULT_CI_USERNAME, <<"regular-user">>}

Addusers ==
    \E c \in CallIds, user \in ConfigUsers, password \in ConfigTokens :
        adduser(c, user, password)

InitConfig == InitOver(AllConfigs, 1..MaxCallers)

NextConfig ==
    \/ Authenticates(ConfigUsers, ConfigTokens)
    \/ Addusers
    \/ Settles
    \/ Return

SpecConfig == InitConfig /\ [][NextConfig]_vars

(***************************************************************************)
(* SpecLive: the calls of SpecConc under the one thing the scheduling      *)
(* guarantees: the timer jose sets on each fetch (timeoutDuration, 5 s by  *)
(* default; the plugin sets no other) fires unless the fetch has settled.  *)
(* The endpoint itself may answer or never answer.                         *)
(***************************************************************************)
InitLive == InitOver(ConcConfigs, 1..MaxCallers)

NextLive ==
    \/ Authenticates({DEFAULT_CI_USERNAME}, ConcTokens)
    \/ Settles
    \/ Return
    \/ Wait

TimerFires == FetchSettles("JWKSTimeout")

SpecLive == InitLive /\ [][NextLive]_vars /\ WF_vars(TimerFires)

(***************************************************************************)
(* SpecThrows: the calls of SpecConc with callbacks that may throw when    *)
(* handed the group list.                                                  *)
(***************************************************************************)
ThrowsUsers == {DEFAULT_CI_USERNAME, <<"regular-user">>}

ThrowsTokens == ConcTokens \cup {NotJwt("not-a-jwt")}

AuthenticatesThrowing ==
    \E c \in CallIds, user \in ThrowsUsers, password \in ThrowsTokens,
       throws \in BOOLEAN :
        authenticate(c, user, password, throws)

InitThrows == InitOver(ConcConfigs, 1..MaxCallers)

NextThrows ==
    \/ AuthenticatesThrowing
    \/ Settles
    \/ Return
    \/ Tick

SpecThrows == InitThrows /\ [][NextThrows]_vars

(***************************************************************************)
(* Vocabulary of the properties.                                           *)
(***************************************************************************)
\* call c's callback is reached in this step
Completes(c) == calls[c].pc # "done" /\ calls'[c].pc = "done"

\* authenticate was called with the configured trigger username
Triggered(call) ==
    call.op = "authenticate" /\ call.pc # "idle" /\ call.user = plugin.ciUsername

\* the errors of key resolution: the fetch failed, the key set has no key
\* for the kid, the key set's URL could not be built
KeyErrors == FetchFailures \cup {"JWKSNoMatchingKey", "TypeError: Invalid URL"}

\* the one "not authenticated" outcome: cb(null, false), once
NotAuthenticated(call) == call.cbs = <<CbFalse("null")>>

\* cb(null, groups), once, with a non-empty list
Authenticated(call) ==
    /\ Len(call.cbs) = 1
    /\ call.cbs[1].err = "null"
    /\ ~call.cbs[1].isFalse
    /\ call.cbs[1].groups # <<>>

\* the stages a token fails by itself at time t
Malformed(token) == token.shape # "jws"
BadAlgorithm(token) == token.shape = "jws" /\ token.alg # "RS256"
BadSignature(token) == token.shape = "jws" /\ token.sig # token.kid
WrongIssuer(token) == token.shape = "jws" /\ token.iss # plugin.gitlabUrl
WrongAudience(token) == token.shape = "jws" /\ token.aud # plugin.audience
ExpiredAt(token, t) ==
    token.shape = "jws" /\ token.exp # NoClaim /\ token.exp <= t
NotBeforeAt(token, t) ==
    token.shape = "jws" /\ token.nbf # NoClaim /\ token.nbf > t

\* C1: a call made with the trigger username that fails at any stage (no
\* JWS, empty, algorithm, signature, issuer, audience, expiry, unknown key,
\* key endpoint unavailable) ends with exactly cb(null, false): the same
\* arguments whatever the stage, the error argument null.
C1_FailureCollapses ==
    [][\A c \in CallIds :
         LET call == calls'[c]
             token == call.token
         IN  ( /\ Completes(c)
               /\ Triggered(call)
               /\ \/ Malformed(token)
                  \/ BadAlgorithm(token)
                  \/ BadSignature(token)
                  \/ WrongIssuer(token)
                  \/ WrongAudience(token)
                  \/ ExpiredAt(token, now)
                  \/ call.err \in KeyErrors )
             => NotAuthenticated(call)]_vars

\* C1's case: a call with a well-signed token failed because the fetch of
\* the key endpoint timed out, and ended with cb(null, false)
C1_Witness ==
    \E c \in CallIds :
        /\ calls[c].pc = "done"
        /\ Triggered(calls[c])
        /\ calls[c].err = "JWKSTimeout"
        /\ ~Malformed(calls[c].token)
        /\ ~BadSignature(calls[c].token)
        /\ NotAuthenticated(calls[c])

\* C2: a call whose username is not the configured trigger username ends at
\* once with cb(null, false), without running the verification, without
\* creating this.jwks and without a fetch, whatever the password.
C2_PassThrough ==
    [][\A c \in CallIds :
         ( /\ calls[c].pc = "idle"
           /\ calls'[c].pc # "idle"
           /\ calls'[c].user # plugin.ciUsername )
         => /\ calls'[c].pc = "done"
            /\ NotAuthenticated(calls'[c])
            /\ ~calls'[c].verified
            /\ jwks' = jwks
            /\ inFlight' = inFlight]_vars

\* C2's case: ci_username is configured, the default name is used with a
\* token valid in every respect, and the call was passed through
C2_Witness ==
    \E c \in CallIds :
        /\ calls[c].pc = "done"
        /\ plugin.ciUsername = <<"my-ci-bot">>
        /\ calls[c].user = DEFAULT_CI_USERNAME
        /\ calls[c].token =
             Signed("RS256", "k1", TRUE, ISSUER, AUDIENCE, 2, 0, NoClaim,
                    PROTECTED_BRANCH_PUSH)
        /\ now < 2
        /\ ~jwks.created
        /\ NotAuthenticated(calls[c])

\* an RS256 token signed by the key its header names, with the configured
\* issuer and audience, within its validity period at time t
ValidAt(token, t) ==
    /\ token.shape = "jws"
    /\ token.alg = "RS256"
    /\ token.sig = token.kid
    /\ token.iss = plugin.gitlabUrl
    /\ token.aud = plugin.audience
    /\ ~ExpiredAt(token, t)
    /\ ~NotBeforeAt(token, t)

\* C3: a validly signed, non-expired token with the configured issuer and
\* audience, whose key the key set resolves, is authenticated with a group
\* list; with the signature, the issuer, the audience or the expiry changed
\* (one of them or more) the call is not authenticated.
C3_ValidAcceptedChangedRejected ==
    [][\A c \in CallIds :
         LET call == calls'[c]
             token == call.token
         IN  (Completes(c) /\ Triggered(call))
             => /\ (ValidAt(token, now) /\ call.err \notin KeyErrors)
                     => Authenticated(call)
                /\ ( \/ BadSignature(token)
                     \/ WrongIssuer(token)
                     \/ WrongAudience(token)
                     \/ ExpiredAt(token, now) )
                     => NotAuthenticated(call)]_vars

\* C3's case: a valid token was authenticated after its key was fetched
C3_Witness ==
    \E c \in CallIds :
        /\ calls[c].pc = "done"
        /\ Triggered(calls[c])
        /\ ValidAt(calls[c].token, now)
        /\ calls[c].fetchesStarted = 1
        /\ Authenticated(calls[c])
        /\ calls[c].cbs[1].groups = <<GITLAB_CI, GITLAB_CI_PROTECTED>>

(***************************************************************************)
(* Group lists.                                                            *)
(***************************************************************************)
\* the list the callback received
GroupsOf(call) == call.cbs[1].groups

IsTrueString(v) == v.type = "string" /\ v.val = <<"true">>

Has(list, entry) == \E i \in 1..Len(list) : list[i] = entry

NoDuplicate(list) ==
    \A i, j \in 1..Len(list) : list[i] = list[j] => i = j

\* the part of an entry after its first ":" (the entry has one)
PathPart(entry) ==
    LET i == CHOOSE k \in 1..Len(entry) :
                 entry[k] = ":" /\ \A m \in 1..(k - 1) : entry[m] # ":"
    IN  SubSeq(entry, i + 1, Len(entry))

\* C4: an authenticated call's list holds gitlab-ci-protected if and only
\* if ref_protected is exactly the string "true"; for every other value no
\* entry is gitlab-ci-protected or starts with "gitlab-ci-protected:", with
\* project groups on or off; and a token valid in every other respect is
\* authenticated whatever the value of ref_protected.
C4_ProtectedOnlyForTrueString ==
    [][\A c \in CallIds :
         LET call == calls'[c]
             token == call.token
             rp == token.claims.ref_protected
         IN  (Completes(c) /\ Triggered(call))
             => /\ (ValidAt(token, now) /\ call.err \notin KeyErrors)
                     => Authenticated(call)
                /\ Authenticated(call)
                     => /\ Has(GroupsOf(call), GITLAB_CI_PROTECTED)
                             <=> IsTrueString(rp)
                        /\ ~IsTrueString(rp)
                             => \A i \in 1..Len(GroupsOf(call)) :
                                  ~IsPrefix(GITLAB_CI_PROTECTED \o <<":">>,
                                            GroupsOf(call)[i])]_vars

\* C4's case: ref_protected is the boolean true, project groups are on, both
\* paths are present, and the call was authenticated without the protected
\* group
C4_Witness ==
    \E c \in CallIds :
        /\ calls[c].pc = "done"
        /\ plugin.projectGroups
        /\ calls[c].token.claims.ref_protected = JsTrue
        /\ Truthy(calls[c].token.claims.namespace_path)
        /\ Truthy(calls[c].token.claims.project_path)
        /\ Authenticated(calls[c])
        /\ ~Has(GroupsOf(calls[c]), GITLAB_CI_PROTECTED)

\* C5: with project_groups off, an authenticated call's list is exactly
\* [gitlab-ci], or [gitlab-ci, gitlab-ci-protected] when protected: one or
\* two entries, gitlab-ci first, none with a ":", whatever the path claims.
C5_BaseSetWhenDisabled ==
    \A c \in CallIds :
        (calls[c].pc = "done" /\ Authenticated(calls[c])
           /\ ~plugin.projectGroups)
        => LET groups == GroupsOf(calls[c])
               rp == calls[c].token.claims.ref_protected
           IN  /\ groups = IF IsTrueString(rp)
                           THEN <<GITLAB_CI, GITLAB_CI_PROTECTED>>
                           ELSE <<GITLAB_CI>>
               /\ Len(groups) \in {1, 2}
               /\ groups[1] = GITLAB_CI
               /\ \A i \in 1..Len(groups) : ~Contains(groups[i], ":")

\* C5's case: project groups off, a protected token with a nested namespace
\* and a project path, authenticated with the two base groups
C5_Witness ==
    \E c \in CallIds :
        /\ calls[c].pc = "done"
        /\ ~plugin.projectGroups
        /\ IsTrueString(calls[c].token.claims.ref_protected)
        /\ calls[c].token.claims.namespace_path = JsString(PathOf(2))
        /\ Truthy(calls[c].token.claims.project_path)
        /\ Authenticated(calls[c])
        /\ Len(GroupsOf(calls[c])) = 2

\* test/fixtures.ts, expectedGroupsWithProjects: the entries of one path
ExpectedPathGroups(path, protected) ==
    << GITLAB_CI \o <<":">> \o path >>
      \o (IF protected THEN << GITLAB_CI_PROTECTED \o <<":">> \o path >>
          ELSE <<>>)

ExpectedGroupsWithProjects(claims) ==
    LET protected == IsTrueString(claims.ref_protected)
    IN  <<GITLAB_CI>>
          \o (IF protected THEN <<GITLAB_CI_PROTECTED>> ELSE <<>>)
          \o ExpectedPathGroups(claims.namespace_path.val, protected)
          \o ExpectedPathGroups(claims.project_path.val, protected)

\* C6: with project_groups on, an authenticated call's list is gitlab-ci,
\* gitlab-ci-protected if protected, then for namespace_path and then for
\* project_path "gitlab-ci:<path>" followed, if protected, by
\* "gitlab-ci-protected:<path>".
C6_GroupsWithProjects ==
    \A c \in CallIds :
        (calls[c].pc = "done" /\ Authenticated(calls[c])
           /\ plugin.projectGroups
           /\ calls[c].token.claims \in FixtureClaims)
        => GroupsOf(calls[c]) = ExpectedGroupsWithProjects(calls[c].token.claims)

\* the path parts, in order, of the entries of a list that have a ":"
RECURSIVE PathParts(_)
PathParts(list) ==
    IF list = <<>> THEN <<>>
    ELSE (IF Contains(Head(list), ":") THEN <<PathPart(Head(list))>> ELSE <<>>)
           \o PathParts(Tail(list))

\* each prefix of the chain once, and once more if protected
RECURSIVE Repeated(_, _)
Repeated(chain, protected) ==
    IF chain = <<>> THEN <<>>
    ELSE <<Head(chain)>> \o (IF protected THEN <<Head(chain)>> ELSE <<>>)
           \o Repeated(Tail(chain), protected)

ChainOf(v) == IF Truthy(v) THEN PrefixChain(v.val) ELSE <<>>

\* C7 as stated: with project_groups on, namespace_path is expanded into
\* its cumulative prefix chain, shortest first, each prefix giving one entry
\* "<base>:<prefix>" and, if protected, a second one right after it, and the
\* chain of project_path follows the whole namespace chain.
C7_PrefixChains ==
    \A c \in CallIds :
        (calls[c].pc = "done" /\ Authenticated(calls[c])
           /\ plugin.projectGroups)
        => LET claims == calls[c].token.claims
               protected == IsTrueString(claims.ref_protected)
           IN  PathParts(GroupsOf(calls[c])) =
                 Repeated(ChainOf(claims.namespace_path), protected)
                   \o Repeated(ChainOf(claims.project_path), protected)

\* C7 amended: with project_groups on, a path claim is not expanded: every
\* entry with a ":" carries the whole namespace_path or the whole
\* project_path, never a proper prefix; each non-empty path claim has an
\* entry; the namespace's entries come before the project's.
C7_WholePathsOnly ==
    \A c \in CallIds :
        (calls[c].pc = "done" /\ Authenticated(calls[c])
           /\ plugin.projectGroups)
        => LET claims == calls[c].token.claims
               ns == claims.namespace_path
               proj == claims.project_path
               groups == GroupsOf(calls[c])
               pathEntries == { i \in 1..Len(groups) : Contains(groups[i], ":") }
           IN  /\ \A i \in pathEntries :
                    \/ Truthy(ns) /\ PathPart(groups[i]) = ns.val
                    \/ Truthy(proj) /\ PathPart(groups[i]) = proj.val
               /\ Truthy(ns) =>
                    \E i \in pathEntries : PathPart(groups[i]) = ns.val
               /\ Truthy(proj) =>
                    \E i \in pathEntries : PathPart(groups[i]) = proj.val
               /\ (Truthy(ns) /\ Truthy(proj) /\ ns.val # proj.val) =>
                    \A i, j \in pathEntries :
                        (PathPart(groups[i]) = ns.val
                           /\ PathPart(groups[j]) = proj.val) => i < j

\* C7's case: project groups on and a namespace of two segments under a
\* project of three
C7_Witness ==
    \E c \in CallIds :
        /\ calls[c].pc = "done"
        /\ plugin.projectGroups
        /\ calls[c].token.claims.namespace_path.val =
             <<"my-org", "/", "team-a", "/", "libs">>
        /\ Authenticated(calls[c])
        /\ Len(GroupsOf(calls[c])) = 4

\* C8 as stated: an authenticated call's list has no duplicate entry.
C8_NoDuplicates ==
    \A c \in CallIds :
        (calls[c].pc = "done" /\ Authenticated(calls[c]))
        => NoDuplicate(GroupsOf(calls[c]))

\* C8 amended: the list has a duplicate exactly when project_groups is on
\* and namespace_path and project_path are the same non-empty string; the
\* repeated entry is then that path's, as the last two entries of the list.
C8_DuplicateOnlyForEqualPaths ==
    \A c \in CallIds :
        (calls[c].pc = "done" /\ Authenticated(calls[c]))
        => LET claims == calls[c].token.claims
               ns == claims.namespace_path
               proj == claims.project_path
               groups == GroupsOf(calls[c])
               n == Len(groups)
               equalPaths == /\ plugin.projectGroups
                             /\ Truthy(ns) /\ Truthy(proj)
                             /\ ns.val = proj.val
           IN  /\ ~NoDuplicate(groups) <=> equalPaths
               /\ equalPaths =>
                    /\ n >= 3
                    /\ groups[n] = groups[n - 1]
                    /\ Contains(groups[n], ":")
                    /\ PathPart(groups[n]) = ns.val
                    /\ NoDuplicate(SubSeq(groups, 1, n - 1))

\* C8's case: project groups on, both path claims "a/b", and the list ends
\* with the same entry twice
C8_Witness ==
    \E c \in CallIds :
        /\ calls[c].pc = "done"
        /\ plugin.projectGroups
        /\ calls[c].token.claims.namespace_path = JsString(PathOf(2))
        /\ calls[c].token.claims.project_path = JsString(PathOf(2))
        /\ Authenticated(calls[c])
        /\ ~NoDuplicate(GroupsOf(calls[c]))

RequiredClaims ==
    {"sub", "ref", "ref_type", "ref_protected", "project_path",
     "namespace_path", "pipeline_source"}

LacksRequired(claims) ==
    \E name \in RequiredClaims : claims[name].type = "undefined"

\* C9 as stated: a call whose token lacks one of the required claims is not
\* authenticated.
C9_MissingClaimRejected ==
    \A c \in CallIds :
        (calls[c].pc = "done" /\ Triggered(calls[c])
           /\ LacksRequired(calls[c].token.claims))
        => NotAuthenticated(calls[c])

\* C9 amended: a token valid in signature, issuer, audience and times whose
\* key is resolved is authenticated also when it lacks required claims: the
\* list starts with gitlab-ci, an absent ref_protected gives no protected
\* group and an absent path claim gives no entry.
C9_MissingClaimsStillAuthenticated ==
    [][\A c \in CallIds :
         LET call == calls'[c]
             token == call.token
             claims == token.claims
         IN  ( /\ Completes(c)
               /\ Triggered(call)
               /\ LacksRequired(claims)
               /\ ValidAt(token, now)
               /\ call.err \notin KeyErrors )
             => /\ Authenticated(call)
                /\ GroupsOf(call)[1] = GITLAB_CI
                /\ claims.ref_protected.type = "undefined"
                     => ~Has(GroupsOf(call), GITLAB_CI_PROTECTED)
                /\ Cardinality({ i \in 1..Len(GroupsOf(call)) :
                                   Contains(GroupsOf(call)[i], ":") })
                     <= Cardinality({ name \in {"namespace_path", "project_path"} :
                                        claims[name].type # "undefined" })]_vars

\* C9's case: project groups on, a token without sub, ref_protected and
\* namespace_path was authenticated with gitlab-ci and its project's entry
C9_Witness ==
    \E c \in CallIds :
        /\ calls[c].pc = "done"
        /\ plugin.projectGroups
        /\ calls[c].token.claims.namespace_path.type = "undefined"
        /\ calls[c].token.claims.ref_protected.type = "undefined"
        /\ calls[c].token.claims.sub.type = "undefined"
        /\ Truthy(calls[c].token.claims.project_path)
        /\ Authenticated(calls[c])
        /\ Len(GroupsOf(calls[c])) = 2

\* C10 as stated: a token carrying iat and exp is authenticated only if
\* iat <= now < exp at verification time.
C10_IssuedAtAndExpiry ==
    [][\A c \in CallIds :
         LET call == calls'[c]
             token == call.token
         IN  ( /\ Completes(c)
               /\ Triggered(call)
               /\ Authenticated(call)
               /\ token.iat # NoClaim
               /\ token.exp # NoClaim )
             => (token.iat <= now /\ now < token.exp)]_vars

\* C10 amended: a token is authenticated only if now < exp when it carries
\* exp (a token whose exp equals or precedes now is not authenticated);
\* iat is not compared with the clock: a token otherwise valid whose key is
\* resolved is authenticated whatever its iat.
C10_ExpiryOnly ==
    [][\A c \in CallIds :
         LET call == calls'[c]
             token == call.token
         IN  (Completes(c) /\ Triggered(call))
             => /\ Authenticated(call)
                     => (token.exp = NoClaim \/ now < token.exp)
                /\ ExpiredAt(token, now) => NotAuthenticated(call)
                /\ (ValidAt(token, now) /\ call.err \notin KeyErrors)
                     => Authenticated(call)]_vars

\* C10's case: a token issued in the future (iat after now) that carries an
\* exp was authenticated
C10_Witness ==
    \E c \in CallIds :
        /\ calls[c].pc = "done"
        /\ calls[c].token.iat # NoClaim
        /\ calls[c].token.iat > now
        /\ calls[c].token.exp # NoClaim
        /\ Authenticated(calls[c])

(***************************************************************************)
(* The key set under concurrent calls.                                     *)
(***************************************************************************)
\* the fetches started by the calls of a list
RECURSIVE FetchesStartedBy(_)
FetchesStartedBy(waiters) ==
    IF waiters = <<>> THEN 0
    ELSE calls'[Head(waiters)].fetchesStarted + FetchesStartedBy(Tail(waiters))

Waiting(j) == { j.waiters[i] : i \in 1..Len(j.waiters) }

\* the pending fetch settled in this step
FetchSettled == jwks.pending /\ ~jwks'.pending

\* C11: calls that find the key set cold, stale or without their key share
\* one fetch: never more than one fetch is in flight, the calls waiting for
\* it have started exactly one fetch between them (one fetch for a cold
\* cache however many calls wait), and when it settles every waiting call
\* gets its result: all the same failure, or each its key from the new set.
C11_SingleFlight ==
    [][/\ inFlight' <= 1
       /\ inFlight' = (IF jwks'.pending THEN 1 ELSE 0)
       /\ jwks'.pending <=> jwks'.waiters # <<>>
       /\ jwks'.waiters # <<>> => FetchesStartedBy(jwks'.waiters) = 1
       /\ FetchSettled =>
            \/ \E f \in FetchFailures :
                 \A c \in Waiting(jwks) :
                     /\ calls'[c].pc = "done"
                     /\ calls'[c].err = f
                     /\ NotAuthenticated(calls'[c])
            \/ /\ jwks'.cached
               /\ jwks'.keys = published
               /\ \A c \in Waiting(jwks) :
                     /\ calls'[c].pc = "done"
                     /\ IF calls'[c].token.kid \in published
                        THEN Authenticated(calls'[c])
                        ELSE /\ calls'[c].err = "JWKSNoMatchingKey"
                             /\ NotAuthenticated(calls'[c])]_vars

\* C11's case: two calls wait on a cold key set and one fetch is in flight
C11_Witness ==
    /\ ~jwks.cached
    /\ Len(jwks.waiters) = 2
    /\ \A c \in Waiting(jwks) : calls[c].pc = "await_reload"
    /\ inFlight = 1

\* call c starts in this step, with the trigger username and a token that
\* passes the header checks
Starts(c) ==
    /\ calls[c].pc = "idle"
    /\ calls'[c].pc # "idle"
    /\ Triggered(calls'[c])
    /\ ~Malformed(calls'[c].token)
    /\ ~BadAlgorithm(calls'[c].token)

\* the key set is cached and fresh and has no key for the call's token
MissesKey(c) ==
    /\ jwks.cached
    /\ Fresh(jwks, now)
    /\ calls'[c].token.kid \notin jwks.keys

BuiltFrom == { config \in AllConfigs : constructor(config) = plugin }

\* C13: constructing with gitlab_url undefined or empty throws naming
\* gitlab_url, with gitlab_url set and audience undefined or empty throws
\* naming audience, and with both set succeeds; when the constructor threw
\* there is no instance: no call is ever served, no key set is created and
\* no fetch is made.
C13_IncompleteConfigNotConstructed ==
    /\ BuiltFrom # {}
    /\ \A config \in BuiltFrom :
         /\ ~Truthy(config.gitlab_url) => plugin.threw = "gitlab_url"
         /\ (Truthy(config.gitlab_url) /\ ~Truthy(config.audience))
              => plugin.threw = "audience"
         /\ (Truthy(config.gitlab_url) /\ Truthy(config.audience))
              => /\ plugin.threw = "none"
                 /\ plugin.audience = config.audience.val
    /\ plugin.threw # "none"
         => /\ \A c \in CallIds : calls[c] = IdleCall
            /\ jwks = NoJwks
            /\ inFlight = 0

\* C13's case: gitlab_url was set and audience missing, the constructor
\* threw naming audience, and no call is being served
C13_Witness ==
    /\ plugin.threw = "audience"
    /\ \E config \in BuiltFrom :
         Truthy(config.gitlab_url) /\ config.audience = JsString(<<>>)
    /\ \A c \in CallIds : calls[c] = IdleCall
    /\ jwks = NoJwks

\* the complete configurations that name the issuer, with trailing slashes
\* or without
SlashedConfigs ==
    { config \in BuiltFrom :
        /\ Truthy(config.audience)
        /\ \E k \in 0..MaxSlashes :
              config.gitlab_url = JsString(Slashed(ISSUER, k)) }

\* what the instance configured with the issuer without a trailing slash
\* accepts at time t
AcceptedWithoutSlash(token, t) ==
    /\ token.shape = "jws"
    /\ token.alg = "RS256"
    /\ token.sig = token.kid
    /\ token.iss = ISSUER
    /\ token.aud = AUDIENCE
    /\ ~ExpiredAt(token, t)
    /\ ~NotBeforeAt(token, t)

\* C14: however many trailing slashes gitlab_url has, the instance holds
\* the issuer without them, the key set's URL is
\* {issuer}/oauth/discovery/keys, the expected iss is the issuer without
\* slashes, and a call is authenticated exactly when the instance configured
\* without trailing slash would authenticate it.
C14_TrailingSlashesStripped ==
    [][SlashedConfigs # {} =>
         /\ plugin.gitlabUrl = ISSUER
         /\ jwks'.created => jwks'.url = <<GITLAB_ORIGIN, KEYS_PATH>>
         /\ \A c \in CallIds :
              (Completes(c) /\ Triggered(calls'[c]))
              => /\ Authenticated(calls'[c])
                      <=> /\ AcceptedWithoutSlash(calls'[c].token, now)
                          /\ calls'[c].err \notin KeyErrors
                 /\ calls'[c].token.iss # ISSUER
                      => NotAuthenticated(calls'[c])]_vars

\* C14's case: gitlab_url was the issuer followed by "///", and a token
\* naming the issuer without slash was authenticated with keys fetched from
\* {issuer}/oauth/discovery/keys
C14_Witness ==
    \E c \in CallIds :
        /\ \E config \in BuiltFrom :
             config.gitlab_url = JsString(ISSUER \o <<"/", "/", "/">>)
        /\ calls[c].pc = "done"
        /\ calls[c].token.iss = ISSUER
        /\ calls[c].fetchesStarted = 1
        /\ jwks.cached
        /\ jwks.url = <<GITLAB_ORIGIN, KEYS_PATH>>
        /\ Authenticated(calls[c])

(***************************************************************************)
(* Project groups as the code derives them.                                *)
(***************************************************************************)
\* the positions of an entry in a list
PositionsOf(list, entry) == { i \in 1..Len(list) : list[i] = entry }

\* "gitlab:<path>"
ProjectGroup(path) == GITLAB_PREFIX \o path

C16_AdduserOnlyCallsBack ==
    [][\A c \in CallIds :
         /\ (calls[c].pc = "idle" /\ calls'[c].op = "adduser")
              => /\ calls'[c].pc = "done"
                 /\ calls'[c].cbs = <<CbFalse("null")>>
                 /\ ~calls'[c].verified
                 /\ calls'[c].fetchesStarted = 0
                 /\ plugin' = plugin
                 /\ jwks' = jwks
                 /\ inFlight' = inFlight
                 /\ published' = published
                 /\ \A d \in CallIds \ {c} : calls'[d] = calls[d]
         /\ (calls[c].op = "adduser" /\ calls'[c].op = "adduser")
              => calls'[c] = calls[c]]_vars

\* C16's case: adduser was called with the trigger username and a valid
\* token while another call waits for the key endpoint, and got false
C16_Witness ==
    \E c, d \in CallIds :
        /\ calls[c].op = "adduser"
        /\ calls[c].pc = "done"
        /\ calls[c].user = plugin.ciUsername
        /\ AcceptedWithoutSlash(calls[c].token, now)
        /\ calls[c].cbs = <<CbFalse("null")>>
        /\ calls[d].op = "authenticate"
        /\ calls[d].pc = "await_reload"
        /\ inFlight = 1

(***************************************************************************)
(* The cached key set across fetches.                                      *)
(***************************************************************************)
\* what is cached: whether anything is, the keys, and when they were fetched
Cached(j) == <<j.cached, j.keys, j.timestamp>>

\* C17: a failed fetch (timeout, status other than 200, body that is no key
\* set) fails every call waiting for it with that failure and leaves what is
\* cached as it was; what is cached changes only when a fetch succeeds, and
\* is then the whole set the endpoint serves, stamped with the time.
C17_FetchFailureKeepsKeySet ==
    [][/\ Cached(jwks') # Cached(jwks)
            => /\ FetchSettled
               /\ Cached(jwks') = <<TRUE, published, now * 1000>>
       /\ (FetchSettled
             /\ \E c \in Waiting(jwks) : calls'[c].err \in FetchFailures)
            => /\ Cached(jwks') = Cached(jwks)
               /\ \A c \in Waiting(jwks) :
                    /\ calls'[c].pc = "done"
                    /\ calls'[c].err \in FetchFailures
                    /\ NotAuthenticated(calls'[c])
       /\ jwks'.cached => jwks'.keys \in KeySets]_vars

\* C17's case: the refresh of a stale key set failed; the call failed with
\* the fetch's error although the old set, still cached, has its key, and
\* the endpoint serves other keys by now
C17_Witness ==
    \E c \in CallIds :
        /\ calls[c].pc = "done"
        /\ calls[c].err \in FetchFailures
        /\ NotAuthenticated(calls[c])
        /\ jwks.cached
        /\ ~jwks.pending
        /\ jwks.keys = {"k1"}
        /\ calls[c].token.kid \in jwks.keys
        /\ published = {"k2"}
        /\ jwks.timestamp < now * 1000

\* the key set's age exceeds jwks_cache_ttl seconds at time t
Stale(j, t) == j.cached /\ t * 1000 - j.timestamp > plugin.jwksCacheTtl * 1000

\* C18: a call that starts when nothing is cached yet, or when the cached
\* set is older than jwks_cache_ttl seconds (86400 when not configured),
\* waits for a fetch before its key is resolved; a waiting call goes on only
\* when the fetch settles, and with the set just fetched; and no call is
\* authenticated against a set older than the ttl.
C18_StaleKeySetRefreshedFirst ==
    [][/\ \A config \in RawConfigs :
            constructor(config) = plugin
            => plugin.jwksCacheTtl = IF config.jwks_cache_ttl.defined
                                     THEN config.jwks_cache_ttl.n
                                     ELSE 86400
       /\ jwks'.created => jwks'.cacheMaxAge = plugin.jwksCacheTtl * 1000
       /\ \A c \in CallIds :
            /\ (Starts(c) /\ (~jwks.cached \/ Stale(jwks, now)))
                 => /\ calls'[c].pc = "await_reload"
                    /\ calls'[c].cbs = <<>>
                    /\ jwks'.pending
            /\ (calls[c].pc = "await_reload" /\ calls'[c].pc # "await_reload")
                 => /\ FetchSettled
                    /\ calls'[c].err \notin FetchFailures
                         => Cached(jwks') = <<TRUE, published, now * 1000>>
            /\ (Completes(c) /\ Authenticated(calls'[c]))
                 => /\ jwks'.cached
                    /\ ~Stale(jwks', now)
                    /\ calls'[c].token.kid \in jwks'.keys]_vars

\* C18's case: jwks_cache_ttl is 1, the cached set is older than that, and a
\* call that started since waits for the refresh instead of using the set,
\* which has its key
C18_Witness ==
    \E c \in CallIds :
        /\ plugin.jwksCacheTtl = 1
        /\ jwks.cached
        /\ Stale(jwks, now)
        /\ calls[c].pc = "await_reload"
        /\ calls[c].phase = "initial"
        /\ calls[c].token.kid \in jwks.keys
        /\ calls[c].cbs = <<>>
        /\ inFlight = 1

(***************************************************************************)
(* The algorithm allow-list.                                               *)
(***************************************************************************)
\* the options of PluginConfig
ConfigOptions ==
    {"gitlab_url", "audience", "ci_username", "jwks_cache_ttl", "project_groups"}

\* C19: the allow-list is RS256 alone and no configuration option names an
\* algorithm; a call whose token declares another algorithm is rejected
\* with JOSEAlgNotAllowed before any key is asked for (no wait, no fetch),
\* whatever the token's signature, key id, issuer, audience and expiry and
\* whatever the configuration.
C19_OnlyRS256 ==
    [][/\ ALGORITHMS = {"RS256"}
       /\ \A config \in RawConfigs : DOMAIN config = ConfigOptions
       /\ \A c \in CallIds :
            ( /\ calls'[c].pc # "idle"
              /\ calls[c].pc # calls'[c].pc
              /\ Triggered(calls'[c])
              /\ calls'[c].token.shape = "jws"
              /\ calls'[c].token.alg # "RS256" )
            => /\ calls[c].pc = "idle"
               /\ calls'[c].pc = "done"
               /\ calls'[c].err = "JOSEAlgNotAllowed"
               /\ NotAuthenticated(calls'[c])
               /\ calls'[c].fetchesStarted = 0
               /\ inFlight' = inFlight]_vars

\* C19's case: an HS256 token, otherwise valid and signed under the key id
\* the cached set holds, was rejected
C19_Witness ==
    \E c \in CallIds :
        /\ calls[c].pc = "done"
        /\ Triggered(calls[c])
        /\ calls[c].token.alg = "HS256"
        /\ calls[c].token.sig = calls[c].token.kid
        /\ calls[c].token.kid \in jwks.keys
        /\ jwks.cached
        /\ calls[c].token.iss = plugin.gitlabUrl
        /\ calls[c].token.aud = plugin.audience
        /\ ~ExpiredAt(calls[c].token, now)
        /\ calls[c].err = "JOSEAlgNotAllowed"
        /\ NotAuthenticated(calls[c])

(***************************************************************************)
(* Termination of a call.                                                  *)
(***************************************************************************)
\* C20: every authenticate call eventually invokes its callback: a call
\* leaves authenticate either with its callback invoked or waiting for the
\* key fetch, and a call waiting for the key fetch eventually has its
\* callback invoked, the fetch's timeout settling it when the endpoint
\* never answers.
C20_CallbackEventually ==
    \A c \in 1..MaxCallers :
        /\ [](calls[c].pc \in {"idle", "await_reload", "done"})
        /\ [](calls[c].pc = "done" => Len(calls[c].cbs) >= 1)
        /\ (calls[c].pc = "await_reload") ~> (calls[c].pc = "done")

\* C20's case: the endpoint did not answer, the timeout settled the fetch,
\* and the waiting call's callback was invoked with false
C20_Witness ==
    \E c \in CallIds :
        /\ calls[c].pc = "done"
        /\ calls[c].phase = "initial"
        /\ calls[c].fetchesStarted = 1
        /\ calls[c].err = "JWKSTimeout"
        /\ NotAuthenticated(calls[c])
        /\ ~jwks.pending

(***************************************************************************)
(* The callback.                                                           *)
(***************************************************************************)
\* C21: each authenticate call invokes its callback exactly once, with a
\* group list or with false and never both: none before the call is done,
\* one when it is, also when the callback throws on receiving the group
\* list.
C21_CallbackExactlyOnce ==
    \A c \in CallIds :
        /\ calls[c].pc # "done" => calls[c].cbs = <<>>
        /\ (calls[c].pc = "done" /\ calls[c].op = "authenticate")
             => /\ Len(calls[c].cbs) = 1
                /\ ~ \E i, j \in 1..Len(calls[c].cbs) :
                       ~calls[c].cbs[i].isFalse /\ calls[c].cbs[j].isFalse

====
